---- MODULE Spec2Model ----
(***************************************************************************)
(* Model of tracecat's trigger-input machinery:                            *)
(*   - tracecat/workflow/management/schemas.py                             *)
(*       _inline_schema_refs, _schema_contains_refs,                       *)
(*       build_trigger_inputs_schema, sanitize_expects_types               *)
(*   - tracecat/dsl/validation.py                                          *)
(*       _normalize_type_string, validate_trigger_inputs                   *)
(*                                                                         *)
(* Three specifications share the variables:                               *)
(*   SpecBuild / FairSpecBuild  the $ref inlining loop of                  *)
(*                              build_trigger_inputs_schema, one step per  *)
(*                              _walk call                                 *)
(*   SpecSanitize               sanitize_expects_types, applied to an      *)
(*                              expects map and then to its own output     *)
(*   SpecValidate               validate_trigger_inputs                    *)
(***************************************************************************)
EXTENDS Integers, Sequences, FiniteSets, TLC

VARIABLES
    \* ---- build_trigger_inputs_schema
    schema,            \* the document being rewritten in place
    schema0,           \* the document as model_json_schema() produced it
    stack,             \* pending _walk calls of the current pass (paths)
    replacement_made,  \* the nonlocal flag of _inline_schema_refs
    pc,                \* position inside build_trigger_inputs_schema
    \* ---- sanitize_expects_types
    expects,           \* the expects argument
    san1,              \* outcome of sanitize_expects_types(expects)
    san2,              \* outcome of sanitize_expects_types(san1.value)
    alias_ok,          \* whether parse_type itself accepts surface aliases
    spc,               \* position of the sanitize driver
    \* ---- validate_trigger_inputs
    vexpects,          \* dsl.entrypoint.expects
    payload,           \* the payload object (mutated in place when a dict)
    payload0,          \* the payload as the caller passed it
    raise_exceptions,  \* the keyword argument
    extra_policy,      \* the structural validator's treatment of extra keys
    vres,              \* outcome of the call
    vpc                \* position of the validate driver

vars == <<schema, schema0, stack, replacement_made, pc,
          expects, san1, san2, alias_ok, spc,
          vexpects, payload, payload0, raise_exceptions, extra_policy, vres, vpc>>

buildVars == <<schema, schema0, stack, replacement_made, pc>>
sanVars   == <<expects, san1, san2, alias_ok, spc>>
valVars   == <<vexpects, payload, payload0, raise_exceptions, extra_policy, vres, vpc>>

(***************************************************************************)
(* JSON documents.  A node is a record [t, s, e]:                          *)
(*   t = "str": a string; s holds its "/"-separated segments               *)
(*   t = "obj": a dict;   e is the insertion-ordered sequence of           *)
(*              [k |-> key, v |-> node] entries                            *)
(*   t = "arr": a list;   e is the sequence of [k |-> "", v |-> node]      *)
(***************************************************************************)
Str(segs) == [t |-> "str", s |-> segs, e |-> <<>>]
S(x) == Str(<<x>>)
Obj(entries) == [t |-> "obj", s |-> <<>>, e |-> entries]
Arr(entries) == [t |-> "arr", s |-> <<>>, e |-> entries]
KV(key, node) == [k |-> key, v |-> node]
Item(node) == [k |-> "", v |-> node]

Keys(node) == {node.e[i].k : i \in 1..Len(node.e)}
HasKey(node, key) == node.t = "obj" /\ key \in Keys(node)
Lookup(node, key) == node.e[CHOOSE i \in 1..Len(node.e) : node.e[i].k = key].v

RECURSIVE GetAt(_, _)
GetAt(node, path) ==
    IF path = <<>> THEN node ELSE GetAt(node.e[Head(path)].v, Tail(path))

RECURSIVE SetAt(_, _, _)
SetAt(node, path, new) ==
    IF path = <<>> THEN new
    ELSE [node EXCEPT !.e[Head(path)].v = SetAt(@, Tail(path), new)]

RemoveKey(node, key) ==
    [node EXCEPT !.e = SelectSeq(@, LAMBDA kv : kv.k # key)]

(***************************************************************************)
(* Bounds.                                                                 *)
(***************************************************************************)
\* The interpreter's recursion limit, counted in nested _walk calls.
MaxDepth == 10

(***************************************************************************)
(* _inline_schema_refs (schemas.py 19-56), one _walk call per step.        *)
(***************************************************************************)
\* ref and ref.startswith("#/$defs/")
RefIsLocal(ref) ==
    /\ ref.t = "str"
    /\ Len(ref.s) >= 3
    /\ ref.s[1] = "#"
    /\ ref.s[2] = "$defs"

\* ref.split("/")[-1]
DefName(ref) == ref.s[Len(ref.s)]

\* value.pop("$ref"); for key, ref_value in referenced.items():
\*     value.setdefault(key, ref_value)
MergeDefinition(value, referenced) ==
    LET popped == RemoveKey(value, "$ref")
        added  == SelectSeq(referenced.e, LAMBDA kv : kv.k \notin Keys(popped))
    IN [popped EXCEPT !.e = @ \o added]

\* Whether the dict `value` gets a definition merged into it.
Replaces(value, defs) ==
    /\ HasKey(value, "$ref")
    /\ RefIsLocal(Lookup(value, "$ref"))
    /\ HasKey(defs, DefName(Lookup(value, "$ref")))

\* The dict `value` after the body of `if isinstance(value, dict)` up to the
\* loop over its children.
WalkDict(value, defs) ==
    IF Replaces(value, defs)
    THEN MergeDefinition(value, Lookup(defs, DefName(Lookup(value, "$ref"))))
    ELSE value

ChildPaths(path, node) == [i \in 1..Len(node.e) |-> path \o <<i>>]

\* line 127: schema and "$defs" in schema and isinstance(schema["$defs"], dict)
HasDefsBlock(doc) == HasKey(doc, "$defs") /\ Lookup(doc, "$defs").t = "obj"

\* A scan that also looks inside "$defs" (skip_defs = False).
RECURSIVE ContainsRefsNoSkip(_)
ContainsRefsNoSkip(node) ==
    IF node.t \in {"obj", "arr"}
    THEN \E i \in 1..Len(node.e) :
            \/ (node.t = "obj" /\ node.e[i].k = "$ref")
            \/ ContainsRefsNoSkip(node.e[i].v)
    ELSE FALSE

(***************************************************************************)
(* _schema_contains_refs (schemas.py 59-75), skip_defs = True.             *)
(***************************************************************************)
RECURSIVE _schema_contains_refs(_)
_schema_contains_refs(node) ==
    IF node.t = "obj"
    THEN \E i \in 1..Len(node.e) :
            \/ node.e[i].k = "$ref"
            \/ /\ node.e[i].k # "$defs"
               /\ _schema_contains_refs(node.e[i].v)
    ELSE IF node.t = "arr"
    THEN \E i \in 1..Len(node.e) : _schema_contains_refs(node.e[i].v)
    ELSE FALSE

(***************************************************************************)
(* Documents model_json_schema() can hand to the inlining loop.  The       *)
(* generator lives outside these files; the family covers definitions      *)
(* that are leaves, that refer to another definition (chains), to          *)
(* themselves or to each other (cycles) or to a missing name, and          *)
(* property nodes that refer to a definition directly, with a field-level  *)
(* override, inside a list, to a missing name or to an external document.  *)
(* "$ref" values are strings and "$defs" occurs at the root only.          *)
(***************************************************************************)
DefNames == {"X", "Y"}
RefTargets == DefNames \cup {"Missing"}

Ref(name) == Str(<<"#", "$defs", name>>)
ExternalRef == Str(<<"https:", "", "example.com", "schemas", "X">>)
RefNode(r) == Obj(<<KV("$ref", r)>>)

EnumDef == Obj(<<KV("enum", Arr(<<Item(S("a")), Item(S("b"))>>)),
                 KV("title", S("Color")),
                 KV("type", S("string"))>>)

\* Definition bodies that refer to `n`: bare, inside `items`, inside a property.
RefBodies(n) ==
    {RefNode(Ref(n)),
     Obj(<<KV("items", RefNode(Ref(n))), KV("type", S("array"))>>),
     Obj(<<KV("properties", Obj(<<KV("child", RefNode(Ref(n)))>>)),
           KV("type", S("object"))>>)}

DefBodies ==
    {EnumDef, RefNode(Ref("Missing"))} \cup UNION {RefBodies(n) : n \in DefNames}

PropBodies ==
    {Obj(<<KV("title", S("A")), KV("type", S("string"))>>)}
    \cup {RefNode(Ref(n)) : n \in RefTargets}
    \cup {Obj(<<KV("$ref", Ref(n)), KV("title", S("A"))>>) : n \in DefNames}
    \cup {Obj(<<KV("anyOf", Arr(<<Item(RefNode(Ref(n))), Item(Obj(<<KV("type", S("null"))>>))>>)),
                KV("default", S("null"))>>) : n \in DefNames}
    \cup {RefNode(ExternalRef)}

\* X refers to Y, Y refers to Z, and Z is a leaf or closes the cycle.
ThreeDefBlocks ==
    {Obj(<<KV("X", bx), KV("Y", by), KV("Z", bz)>>) :
        bx \in RefBodies("Y"), by \in RefBodies("Z"), bz \in {EnumDef, RefNode(Ref("X"))}}

DefsBlocks ==
    {Obj(<<>>)}
    \cup {Obj(<<KV("X", bx)>>) : bx \in DefBodies}
    \cup {Obj(<<KV("X", bx), KV("Y", by)>>) : bx \in DefBodies, by \in DefBodies}
    \cup ThreeDefBlocks

Tail3(props) == <<KV("properties", props), KV("title", S("WorkflowTriggerInputs")),
                  KV("type", S("object"))>>

SchemaDocs ==
    LET Props == {Obj(<<KV("a", pa)>>) : pa \in PropBodies}
    IN  {Obj(Tail3(p)) : p \in Props}
        \cup {Obj(<<KV("$defs", d)>> \o Tail3(p)) : d \in DefsBlocks, p \in Props}
        \cup {Obj(Tail3(p) \o <<KV("$defs", d)>>) : d \in DefsBlocks, p \in Props}

(***************************************************************************)
(* build_trigger_inputs_schema (schemas.py 124-141).                       *)
(***************************************************************************)
InitBuild ==
    /\ schema0 \in SchemaDocs
    /\ schema = schema0
    /\ stack = <<>>
    /\ replacement_made = FALSE
    /\ pc = "check_defs"
    \* the sanitizer and the validator are not running
    /\ expects = "idle" /\ san1 = "idle" /\ san2 = "idle"
    /\ alias_ok = FALSE /\ spc = "idle"
    /\ vexpects = "idle" /\ payload = "idle" /\ payload0 = "idle"
    /\ raise_exceptions = FALSE /\ extra_policy = "idle"
    /\ vres = "idle" /\ vpc = "idle"

\* line 127
CheckDefs ==
    /\ pc = "check_defs"
    /\ pc' = IF HasDefsBlock(schema) THEN "loop" ELSE "done"
    /\ UNCHANGED <<schema, schema0, stack, replacement_made>>
    /\ UNCHANGED <<sanVars, valVars>>

\* line 132 calling _inline_schema_refs: lines 27-30 and the call at 55
InlineBegin ==
    /\ pc = "loop"
    /\ IF Lookup(schema, "$defs").e = <<>>
       THEN /\ pc' = "cleanup"
            /\ UNCHANGED <<stack, replacement_made>>
       ELSE /\ pc' = "walk"
            /\ stack' = << <<>> >>
            /\ replacement_made' = FALSE
    /\ UNCHANGED <<schema, schema0>>
    /\ UNCHANGED <<sanVars, valVars>>

\* one call of _walk (lines 32-53)
WalkStep ==
    /\ pc = "walk"
    /\ stack # <<>>
    /\ LET path  == Head(stack)
           value == GetAt(schema, path)
           defs  == Lookup(schema, "$defs")
       IN IF Len(path) > MaxDepth
          THEN \* RecursionError leaves build_trigger_inputs_schema
               /\ pc' = "raised"
               /\ stack' = <<>>
               /\ UNCHANGED <<schema, replacement_made>>
          ELSE IF value.t = "obj"
          THEN LET new == WalkDict(value, defs)
               IN /\ schema' = SetAt(schema, path, new)
                  /\ replacement_made' = (replacement_made \/ Replaces(value, defs))
                  /\ stack' = ChildPaths(path, new) \o Tail(stack)
                  /\ pc' = pc
          ELSE IF value.t = "arr"
          THEN /\ stack' = ChildPaths(path, value) \o Tail(stack)
               /\ UNCHANGED <<schema, replacement_made, pc>>
          ELSE /\ stack' = Tail(stack)
               /\ UNCHANGED <<schema, replacement_made, pc>>
    /\ UNCHANGED schema0
    /\ UNCHANGED <<sanVars, valVars>>

\* A loop that makes a single pass whatever the pass reports.
SinglePass(made) == FALSE

\* line 132: `while _inline_schema_refs(schema, schema_defs): continue`
LoopAgain(made) == made

\* line 56 back into the while of line 132
InlineReturn ==
    /\ pc = "walk"
    /\ stack = <<>>
    /\ pc' = IF LoopAgain(replacement_made) THEN "loop" ELSE "cleanup"
    /\ UNCHANGED <<schema, schema0, stack, replacement_made>>
    /\ UNCHANGED <<sanVars, valVars>>

\* lines 138-141
Cleanup ==
    /\ pc = "cleanup"
    /\ schema' = IF ~_schema_contains_refs(schema)
                 THEN RemoveKey(schema, "$defs")
                 ELSE schema
    /\ pc' = "done"
    /\ UNCHANGED <<schema0, stack, replacement_made>>
    /\ UNCHANGED <<sanVars, valVars>>

NextBuild == CheckDefs \/ InlineBegin \/ WalkStep \/ InlineReturn \/ Cleanup

SpecBuild == InitBuild /\ [][NextBuild]_vars

\* build_trigger_inputs_schema runs as one synchronous call: it keeps taking
\* steps while it has one to take.
FairSpecBuild == SpecBuild /\ WF_vars(NextBuild)

(***************************************************************************)
(* Vocabulary of the claims about the schema builder.                      *)
(***************************************************************************)
\* All index paths of a document.
RECURSIVE PathsOf(_)
PathsOf(node) ==
    {<<>>} \cup UNION {{<<i>> \o q : q \in PathsOf(node.e[i].v)} : i \in 1..Len(node.e)}

\* The keys (list positions) along an index path.
RECURSIVE KeyPath(_, _)
KeyPath(node, path) ==
    IF path = <<>> THEN <<>>
    ELSE <<[k |-> node.e[Head(path)].k, i |-> IF node.t = "arr" THEN Head(path) ELSE 0]>>
         \o KeyPath(node.e[Head(path)].v, Tail(path))

HoldsRef(node) == node.t = "obj" /\ "$ref" \in Keys(node)

\* Paths of the nodes outside the root "$defs" block.
OutsidePaths(doc) ==
    {q \in PathsOf(doc) : q = <<>> \/ doc.e[q[1]].k # "$defs"}

RefOutsideDefs(doc) == \E q \in OutsidePaths(doc) : HoldsRef(GetAt(doc, q))
RefAnywhere(doc) == \E q \in PathsOf(doc) : HoldsRef(GetAt(doc, q))
DefsAnywhere(doc) == \E q \in PathsOf(doc) : HasKey(GetAt(doc, q), "$defs")

\* The names a definition body refers to, at any depth.
RefsIn(body) ==
    {DefName(Lookup(GetAt(body, q), "$ref")) : q \in {r \in PathsOf(body) : HoldsRef(GetAt(body, r))}}

RECURSIVE ReachableDefs(_, _, _)
ReachableDefs(defs, names, fuel) ==
    LET next == names \cup UNION {RefsIn(Lookup(defs, n)) : n \in names \cap Keys(defs)}
    IN IF fuel = 0 \/ next = names THEN names ELSE ReachableDefs(defs, next, fuel - 1)

\* Every $ref is "#/$defs/<name>" with <name> defined, and no definition
\* reaches itself.
ChainedRefsOnly(doc) ==
    /\ HasDefsBlock(doc)
    /\ LET defs == Lookup(doc, "$defs")
       IN /\ \A q \in PathsOf(doc) :
                HoldsRef(GetAt(doc, q)) =>
                    LET ref == Lookup(GetAt(doc, q), "$ref")
                    IN RefIsLocal(ref) /\ Len(ref.s) = 3 /\ DefName(ref) \in Keys(defs)
          /\ \A n \in Keys(defs) :
                n \notin ReachableDefs(defs, RefsIn(Lookup(defs, n)), Cardinality(Keys(defs)))

\* The keys of definition `name` and of the definitions its own $ref chain
\* leads to.
RECURSIVE TransitiveKeys(_, _, _)
TransitiveKeys(defs, name, fuel) ==
    LET body == Lookup(defs, name)
    IN (Keys(body) \ {"$ref"})
       \cup (IF fuel > 0 /\ HoldsRef(body)
             THEN TransitiveKeys(defs, DefName(Lookup(body, "$ref")), fuel - 1)
             ELSE {})

\* The node of `doc` the key path `kp` leads to, or a string when there is none.
RECURSIVE GetByKeys(_, _)
GetByKeys(node, kp) ==
    IF kp = <<>> THEN node
    ELSE IF node.t = "obj" /\ Head(kp).k \in Keys(node)
         THEN GetByKeys(Lookup(node, Head(kp).k), Tail(kp))
    ELSE IF node.t = "arr" /\ Head(kp).i \in 1..Len(node.e)
         THEN GetByKeys(node.e[Head(kp).i].v, Tail(kp))
    ELSE S("<no such node>")

\* Every node of schema0 outside "$defs" that held a $ref holds, in `doc`,
\* its own other keys and the keys of the definition it pointed to.
HoldersInlined(doc0, doc) ==
    LET defs == Lookup(doc0, "$defs")
    IN \A q \in OutsidePaths(doc0) :
          HoldsRef(GetAt(doc0, q)) =>
             LET old == GetAt(doc0, q)
                 now == GetByKeys(doc, KeyPath(doc0, q))
             IN /\ now.t = "obj"
                /\ (Keys(old) \ {"$ref"}) \subseteq Keys(now)
                /\ TransitiveKeys(defs, DefName(Lookup(old, "$ref")),
                                  Cardinality(Keys(defs))) \subseteq Keys(now)

\* C6: the inlining loop of build_trigger_inputs_schema terminates for every
\* schema document: every run of the builder ends, by returning the
\* document or (at worst) by leaving on the interpreter's recursion limit.
C6_InliningTerminates == <>(pc \in {"done", "raised"})

\* C7: for a generated schema with a "$defs" map, the returned document has
\* "$defs" removed if and only if no "$ref" key remains anywhere outside
\* the "$defs" block once inlining has converged.
C7_DefsRemovedIffNoRefOutside ==
    (pc = "done" /\ HasDefsBlock(schema0)) =>
        (~HasKey(schema, "$defs") <=> ~RefOutsideDefs(schema))

\* C7 witness: inlining rewrote the document, converged, a $ref outside
\* "$defs" is left and "$defs" is kept.
C7_Witness ==
    /\ pc = "done"
    /\ HasDefsBlock(schema0)
    /\ schema # schema0
    /\ RefOutsideDefs(schema)
    /\ HasKey(schema, "$defs")

\* C8: when every $ref is "#/$defs/<name>" with <name> defined and the
\* definitions form chains without cycles, the builder returns, and the
\* returned document holds no "$ref" and no "$defs" anywhere, and every node
\* that held a $ref holds the keys of the definition it transitively
\* pointed to.
C8_ChainedRefsInlined ==
    ChainedRefsOnly(schema0) ~>
        (/\ pc = "done"
         /\ ~RefAnywhere(schema)
         /\ ~DefsAnywhere(schema)
         /\ HoldersInlined(schema0, schema))

\* C8 witness: a property referred to X, X referred to Y, Y referred to Z,
\* and the builder returned with all of them inlined.
C8_Witness ==
    /\ pc = "done"
    /\ ChainedRefsOnly(schema0)
    /\ \E q \in OutsidePaths(schema0) :
          /\ HoldsRef(GetAt(schema0, q))
          /\ DefName(Lookup(GetAt(schema0, q), "$ref")) = "X"
    /\ HoldsRef(Lookup(Lookup(schema0, "$defs"), "X"))
    /\ HasKey(Lookup(schema0, "$defs"), "Z")
    /\ schema0.e[1].k = "properties"
    /\ ~RefAnywhere(schema)
    /\ ~HasKey(schema, "$defs")

(***************************************************************************)
(* Python values, descriptors and expects maps.                            *)
(*   A value is [k |-> kind, v |-> tokens]; a string is held as its        *)
(*   tokens (maximal runs of word characters, and the characters between   *)
(*   them), so that word-bounded rewriting acts on tokens.                 *)
(*   A dict with string keys is a function on its key set.                 *)
(*   An optional mapping is [isNone, map].                                 *)
(***************************************************************************)
V(kind, toks) == [k |-> kind, v |-> toks]
PyNone == V("none", <<>>)
PyStr(toks) == V("str", toks)
PyInt(tok) == V("int", <<tok>>)

NoMapping == [isNone |-> TRUE, map |-> <<>>]
Mapping(m) == [isNone |-> FALSE, map |-> m]
\* `not expects`
Falsy(x) == x.isNone \/ DOMAIN x.map = {}

(***************************************************************************)
(* Collaborators defined outside these files: the ExpectedField model,     *)
(* parse_type and the pydantic validation of one value under one type.     *)
(***************************************************************************)
\* ExpectedField.model_validate: type is a required string, description an
\* optional string; the fields given are remembered in model_fields_set.
ExpectedField_model_validate(d) ==
    IF /\ "type" \in DOMAIN d
       /\ d["type"].k = "str"
       /\ ("description" \in DOMAIN d => d["description"].k \in {"str", "none"})
    THEN [ok |-> TRUE,
          field |-> [type |-> d["type"].v,
                     description |-> IF "description" \in DOMAIN d
                                     THEN d["description"] ELSE PyNone,
                     default |-> IF "default" \in DOMAIN d THEN d["default"] ELSE PyNone,
                     model_fields_set |-> DOMAIN d]]
    ELSE [ok |-> FALSE,
          field |-> [type |-> <<>>, description |-> PyNone, default |-> PyNone,
                     model_fields_set |-> {}]]

CanonicalTypes == {<<"str">>, <<"int">>, <<"Any">>}

\* parse_type: canonical type strings resolve, unknown ones fail; whether a
\* surface alias resolves without normalisation is left open (accept_alias).
parse_type(type, accept_alias) ==
    IF type \in CanonicalTypes THEN [ok |-> TRUE, rt |-> type[1]]
    ELSE IF accept_alias /\ type = <<"String">> THEN [ok |-> TRUE, rt |-> "str"]
    ELSE IF accept_alias /\ type = <<"Integer">> THEN [ok |-> TRUE, rt |-> "int"]
    ELSE [ok |-> FALSE, rt |-> "Any"]

IsNumeral(toks) == toks \in {<<"5">>, <<"7">>}

\* TypeAdapter(rt).validate_python(value): the coerced value, or a failure.
Coerce(rt, value) ==
    IF rt = "Any" THEN [ok |-> TRUE, value |-> value]
    ELSE IF rt = "str" THEN [ok |-> value.k = "str", value |-> value]
    ELSE \* "int": an int, or a string that spells one
         IF value.k = "int" THEN [ok |-> TRUE, value |-> value]
         ELSE IF value.k = "str" /\ IsNumeral(value.v)
              THEN [ok |-> TRUE, value |-> V("int", value.v)]
         ELSE [ok |-> FALSE, value |-> value]

ValidUnder(rt, value) == Coerce(rt, value).ok

(***************************************************************************)
(* sanitize_expects_types (schemas.py 144-208).                            *)
(***************************************************************************)
AnyType == <<"Any">>

\* A fallback that spells the permissive type in lower case.
LowerCaseFallbackEntry == [x \in {"type"} |-> PyStr(<<"any">>)]

\* line 167: sanitized[field_name] = {"type": "Any"}
InvalidDescriptorEntry == [x \in {"type"} |-> PyStr(AnyType)]

\* A default check without the exemption of None.
KeepsDefaultNoNullExemption(rt, default_value) == ValidUnder(rt, default_value)

\* lines 191-198: None is kept, any other default is kept if it validates
\* under the resolved type.
KeepsDefault(rt, default_value) ==
    default_value = PyNone \/ ValidUnder(rt, default_value)

\* A type fallback that keeps the declared type string in the entry.
KeepDeclaredType(field, parsed) == field.type

\* lines 171-184: the type the sanitized entry carries.
EntryType(field, parsed) == IF parsed.ok THEN field.type ELSE AnyType

\* An entry builder that lets a failing parse_type escape.
SanitizeFieldUnguardedParse(d, accept_alias) ==
    LET mv == ExpectedField_model_validate(d)
    IN [raised |-> mv.ok /\ ~parse_type(mv.field.type, accept_alias).ok,
        entry |-> InvalidDescriptorEntry]

\* lines 159-206: one iteration of the loop; `raised` tells whether an
\* exception leaves the iteration (every failing call sits in a try block
\* that catches Exception).
SanitizeField(d, accept_alias) ==
    LET mv == ExpectedField_model_validate(d)
    IN IF ~mv.ok
       THEN [raised |-> FALSE, entry |-> InvalidDescriptorEntry]
       ELSE LET field  == mv.field
                parsed == parse_type(field.type, accept_alias)
                resolved_type == IF parsed.ok THEN parsed.rt ELSE "Any"
                withType == [x \in {"type"} |-> PyStr(EntryType(field, parsed))]
                withDesc ==
                    \* `if field.description:` (None and "" are falsy)
                    IF field.description # PyNone /\ field.description.v # <<>>
                    THEN [x \in {"description"} |-> field.description] @@ withType
                    ELSE withType
                withDefault ==
                    IF /\ "default" \in field.model_fields_set
                       /\ KeepsDefault(resolved_type, field.default)
                    THEN [x \in {"default"} |-> field.default] @@ withDesc
                    ELSE withDesc
            IN [raised |-> FALSE, entry |-> withDefault]

\* lines 154-208
sanitize_expects_types(e, accept_alias) ==
    IF Falsy(e)
    THEN [raised |-> FALSE, ret |-> NoMapping]
    ELSE LET per == [f \in DOMAIN e.map |-> SanitizeField(e.map[f], accept_alias)]
         IN IF \E f \in DOMAIN per : per[f].raised
            THEN [raised |-> TRUE, ret |-> NoMapping]
            ELSE [raised |-> FALSE, ret |-> Mapping([f \in DOMAIN per |-> per[f].entry])]

(***************************************************************************)
(* Inputs of the sanitizer: raw descriptors with a missing, non-string,    *)
(* canonical, alias or unknown type, a description that is absent, empty,  *)
(* a text or not a string, and a default that is absent, None, or a value  *)
(* that may or may not fit the type.                                       *)
(***************************************************************************)
FieldNames == {"a", "b"}
UnknownType == <<"not", "-", "a", "-", "real", "-", "type">>

TypeValues == {PyInt("123")} \cup {PyStr(t) : t \in CanonicalTypes \cup {<<"String">>, UnknownType}}
DescriptionValues == {PyStr(<<>>), PyStr(<<"count">>), PyInt("7")}
DefaultValues == {PyNone, PyInt("5"), PyStr(<<"five">>), PyStr(<<"5">>)}

ChoicesFor(key) ==
    IF key = "type" THEN TypeValues
    ELSE IF key = "description" THEN DescriptionValues
    ELSE DefaultValues

RawDescriptors ==
    UNION {{d \in [D -> TypeValues \cup DescriptionValues \cup DefaultValues] :
                \A key \in D : d[key] \in ChoicesFor(key)}
           : D \in SUBSET {"type", "description", "default"}}

ExpectsMaps ==
    {NoMapping} \cup {Mapping(m) : m \in UNION {[F -> RawDescriptors] : F \in SUBSET FieldNames}}

InitSanitize ==
    /\ expects \in ExpectsMaps
    /\ alias_ok \in BOOLEAN
    /\ san1 = "unset"
    /\ san2 = "unset"
    /\ spc = "start"
    \* the builder and the validator are not running
    /\ schema = "idle" /\ schema0 = "idle" /\ stack = <<>>
    /\ replacement_made = FALSE /\ pc = "idle"
    /\ vexpects = "idle" /\ payload = "idle" /\ payload0 = "idle"
    /\ raise_exceptions = FALSE /\ extra_policy = "idle"
    /\ vres = "idle" /\ vpc = "idle"

\* sanitized = sanitize_expects_types(expects)
SanitizeOnce ==
    /\ spc = "start"
    /\ san1' = sanitize_expects_types(expects, alias_ok)
    /\ spc' = "once"
    /\ UNCHANGED <<expects, san2, alias_ok>>
    /\ UNCHANGED <<buildVars, valVars>>

\* sanitize_expects_types(sanitized): the sanitizer on its own output
SanitizeAgain ==
    /\ spc = "once"
    /\ ~san1.raised
    /\ san2' = sanitize_expects_types(san1.ret, alias_ok)
    /\ spc' = "twice"
    /\ UNCHANGED <<expects, san1, alias_ok>>
    /\ UNCHANGED <<buildVars, valVars>>

NextSanitize == SanitizeOnce \/ SanitizeAgain

SpecSanitize == InitSanitize /\ [][NextSanitize]_vars

(***************************************************************************)
(* Claims about sanitize_expects_types.                                    *)
(***************************************************************************)
Sanitized == spc \in {"once", "twice"}
DescriptorValid(d) == ExpectedField_model_validate(d).ok
ExplicitNullDefault(d) == "default" \in DOMAIN d /\ d["default"] = PyNone

\* C3: sanitize_expects_types never raises and never drops a field: a
\* non-empty input yields a mapping with exactly the input's keys in which
\* every entry carries a type; an empty or absent input yields None.
C3_SanitizeTotalAndKeyPreserving ==
    Sanitized =>
        /\ ~san1.raised
        /\ (Falsy(expects) => san1.ret = NoMapping)
        /\ (~Falsy(expects) =>
               /\ ~san1.ret.isNone
               /\ DOMAIN san1.ret.map = DOMAIN expects.map
               /\ \A f \in DOMAIN san1.ret.map : "type" \in DOMAIN san1.ret.map[f])

\* C3 witness: two fields, one with an invalid descriptor and one with an
\* unresolvable type and an incompatible default, both kept.
C3_Witness ==
    /\ Sanitized
    /\ ~Falsy(expects)
    /\ DOMAIN expects.map = FieldNames
    /\ ~DescriptorValid(expects.map["a"])
    /\ DescriptorValid(expects.map["b"])
    /\ expects.map["b"]["type"] = PyStr(UnknownType)
    /\ "default" \in DOMAIN expects.map["b"]
    /\ DOMAIN san1.ret.map = FieldNames

\* C4: every sanitized entry carries a type string the resolver resolves
\* (the declared type, which resolved, or "Any"), and a non-null default of
\* an entry validates under the type resolved for that entry.
C4_SanitizedDescriptorInvariant ==
    (Sanitized /\ ~san1.raised /\ ~san1.ret.isNone) =>
        \A f \in DOMAIN san1.ret.map :
            LET entry == san1.ret.map[f]
                raw   == expects.map[f]
                res   == parse_type(entry["type"].v, alias_ok)
            IN /\ entry["type"].k = "str"
               /\ res.ok
               /\ \/ entry["type"].v = AnyType
                  \/ ("type" \in DOMAIN raw /\ entry["type"] = raw["type"])
               /\ ("default" \in DOMAIN entry /\ entry["default"] # PyNone
                      => ValidUnder(res.rt, entry["default"]))

\* C4 witness: one field lost an incompatible default, the other one had its
\* unresolvable type replaced and kept its default under "Any".
C4_Witness ==
    /\ Sanitized
    /\ ~Falsy(expects)
    /\ DOMAIN expects.map = FieldNames
    /\ expects.map["a"] = [x \in {"type", "default"} |->
                              IF x = "type" THEN PyStr(<<"int">>) ELSE PyStr(<<"five">>)]
    /\ san1.ret.map["a"] = [x \in {"type"} |-> PyStr(<<"int">>)]
    /\ DescriptorValid(expects.map["b"])
    /\ expects.map["b"]["type"] = PyStr(UnknownType)
    /\ "default" \in DOMAIN san1.ret.map["b"]
    /\ san1.ret.map["b"]["default"] = PyStr(<<"five">>)

\* C5: sanitize_expects_types is idempotent: applied to its own output it
\* returns a map equal to that output.
C5_SanitizeIdempotent ==
    spc = "twice" => (~san2.raised /\ san2.ret = san1.ret)

\* C5 witness: the first application changed the input (a field was
\* replaced, a description and a default were dropped) and the second one
\* has run.
C5_Witness ==
    /\ spc = "twice"
    /\ ~san1.ret.isNone
    /\ san1.ret # expects
    /\ DOMAIN expects.map = FieldNames
    /\ ~DescriptorValid(expects.map["a"])
    /\ DescriptorValid(expects.map["b"])
    /\ DOMAIN expects.map["b"] = {"type", "description", "default"}
    /\ DOMAIN san1.ret.map["b"] = {"type"}

\* C10 as stated: every field whose raw descriptor explicitly provides
\* default = null is sanitized to an entry carrying default = null, whether
\* or not the descriptor or its type was otherwise valid.
C10_NullDefaultKeptUnconditionally ==
    (Sanitized /\ ~Falsy(expects)) =>
        \A f \in DOMAIN expects.map :
            ExplicitNullDefault(expects.map[f]) =>
                /\ "default" \in DOMAIN san1.ret.map[f]
                /\ san1.ret.map[f]["default"] = PyNone

\* C10 amended: every field whose raw descriptor validates as a descriptor
\* and explicitly provides default = null is sanitized to an entry carrying
\* default = null, whatever the declared type and whether or not it
\* resolves; a field whose descriptor provides no default, or whose
\* descriptor is invalid, is sanitized to an entry with no default key.
C10_NullDefaultKeptForValidDescriptor ==
    (Sanitized /\ ~Falsy(expects)) =>
        \A f \in DOMAIN expects.map :
            LET raw == expects.map[f]
                entry == san1.ret.map[f]
            IN /\ (DescriptorValid(raw) /\ ExplicitNullDefault(raw)) =>
                      ("default" \in DOMAIN entry /\ entry["default"] = PyNone)
               /\ ("default" \notin DOMAIN raw \/ ~DescriptorValid(raw)) =>
                      "default" \notin DOMAIN entry

\* C10 witness: an explicit null default survives under a declared type
\* that does not admit it and under a type that does not resolve.
C10_Witness ==
    /\ Sanitized
    /\ ~Falsy(expects)
    /\ DOMAIN expects.map = FieldNames
    /\ expects.map["a"] = [x \in {"type", "default"} |->
                              IF x = "type" THEN PyStr(<<"int">>) ELSE PyNone]
    /\ san1.ret.map["a"] = expects.map["a"]
    /\ DescriptorValid(expects.map["b"])
    /\ expects.map["b"]["type"] = PyStr(UnknownType)
    /\ ExplicitNullDefault(expects.map["b"])
    /\ san1.ret.map["b"]["default"] = PyNone

(***************************************************************************)
(* _normalize_type_string (validation.py 16-30).                           *)
(***************************************************************************)
\* _TYPE_ALIAS_MAP, in insertion order
TypeAliasMap == << <<"string", "str">>, <<"String", "str">>,
                   <<"integer", "int">>, <<"Integer", "int">>,
                   <<"boolean", "bool">>, <<"Boolean", "bool">> >>

\* re.sub(rf"\b{alias}\b", canonical, normalized): whole words only
SubWord(toks, alias, canonical) ==
    [i \in 1..Len(toks) |-> IF toks[i] = alias THEN canonical ELSE toks[i]]

RECURSIVE NormalizeFrom(_, _)
NormalizeFrom(toks, n) ==
    IF n > Len(TypeAliasMap) THEN toks
    ELSE NormalizeFrom(SubWord(toks, TypeAliasMap[n][1], TypeAliasMap[n][2]), n + 1)

_normalize_type_string(type_str) == NormalizeFrom(type_str, 1)

(***************************************************************************)
(* The model builder and the validator it builds, defined outside these    *)
(* files.                                                                  *)
(***************************************************************************)
\* create_expectation_model: fails when a field's type does not resolve.
create_expectation_model(fields) ==
    [ok |-> \A f \in DOMAIN fields : parse_type(fields[f].type, FALSE).ok,
     rt |-> [f \in DOMAIN fields |-> parse_type(fields[f].type, FALSE).rt]]

\* validator.model_validate(mapping): every declared field is taken from the
\* mapping and coerced, or filled from its default; a field without a
\* default is required; keys that are not declared are rejected or ignored
\* according to the model's configuration.
model_validate(fields, rt, m, policy) ==
    [ok |-> /\ \A f \in DOMAIN fields :
                 IF f \in DOMAIN m THEN Coerce(rt[f], m[f]).ok
                 ELSE "default" \in fields[f].model_fields_set
            /\ (policy = "forbid" => DOMAIN m \subseteq DOMAIN fields),
     \* validated.model_dump()
     dump |-> [f \in DOMAIN fields |->
                 IF f \in DOMAIN m THEN Coerce(rt[f], m[f]).value
                 ELSE fields[f].default]]

(***************************************************************************)
(* validate_trigger_inputs (validation.py 33-97).                          *)
(***************************************************************************)
NoPayload == [kind |-> "none", map |-> <<>>]
IsMapping(p) == p.kind \in {"dict", "mapping"}

Unset == [set |-> FALSE, map |-> <<>>]
Parsed(m) == [set |-> TRUE, map |-> m]

Returned(status, parsed, built, p) ==
    [outcome |-> "returned", exc |-> "none", status |-> status,
     parsed_inputs |-> parsed, built |-> built, payload |-> p]
Raised(exc, built, p) ==
    [outcome |-> "raised", exc |-> exc, status |-> "none",
     parsed_inputs |-> Unset, built |-> built, payload |-> p]

\* A skip branch that reports an empty mapping for every payload.
SkippedAlwaysEmpty(p) == Parsed(<<>>)

\* lines 40-47: parsed_inputs when there is no schema
SkippedParsedInputs(p) ==
    IF IsMapping(p) THEN Parsed(p.map)
    ELSE IF p.kind = "none" THEN Parsed(<<>>)
    ELSE Unset

\* A handler that re-raises whatever the flag says.
AlwaysReraise(flag) == TRUE

\* lines 77-79: `except ValidationError as e: if raise_exceptions: raise`
Reraises(flag) == flag

\* payload.update(parsed_inputs) without the clear().
UpdateWithoutClear(p, parsed) ==
    IF p.kind = "dict" THEN [p EXCEPT !.map = parsed @@ p.map] ELSE p

\* lines 89-91: `if isinstance(payload, dict): payload.clear();
\* payload.update(parsed_inputs)`
ReplaceContents(p, parsed) ==
    IF p.kind = "dict" THEN [p EXCEPT !.map = parsed] ELSE p

validate_trigger_inputs(e, p, raise, policy) ==
    IF Falsy(e)
    THEN Returned("success", SkippedParsedInputs(p), FALSE, p)
    ELSE LET mv == [f \in DOMAIN e.map |-> ExpectedField_model_validate(e.map[f])]
         IN IF \E f \in DOMAIN mv : ~mv[f].ok
            THEN \* line 59, outside any try block
                 Raised("DescriptorInvalid", FALSE, p)
            ELSE LET expects_schema ==
                        [f \in DOMAIN mv |->
                            [mv[f].field EXCEPT !.type = _normalize_type_string(@)]]
                 IN IF ~(p.kind = "none" \/ IsMapping(p))
                    THEN \* payload_mapping is None: lines 93-97
                         Returned("success", Unset, FALSE, p)
                    ELSE LET validator == create_expectation_model(expects_schema)
                             payload_mapping == IF p.kind = "none" THEN <<>> ELSE p.map
                         IN IF ~validator.ok
                            THEN \* line 74, outside the try block
                                 Raised("TypeUnresolvable", FALSE, p)
                            ELSE LET validated == model_validate(expects_schema, validator.rt,
                                                                 payload_mapping, policy)
                                 IN IF ~validated.ok
                                    THEN IF Reraises(raise)
                                         THEN Raised("PayloadValidationFailed", TRUE, p)
                                         ELSE Returned("error", Unset, TRUE, p)
                                    ELSE Returned("success", Parsed(validated.dump), TRUE,
                                                  ReplaceContents(p, validated.dump))

(***************************************************************************)
(* Inputs of the validator.                                                *)
(***************************************************************************)
VTypeValues == {PyInt("123"), PyStr(<<"int">>), PyStr(<<"Integer">>), PyStr(<<"str">>),
                PyStr(UnknownType)}
VDefaultValues == {PyNone, PyInt("7")}

VDescriptors ==
    UNION {{d \in [D -> VTypeValues \cup VDefaultValues] :
                \A key \in D : d[key] \in (IF key = "type" THEN VTypeValues ELSE VDefaultValues)}
           : D \in SUBSET {"type", "default"}}

VExpectsMaps ==
    {NoMapping} \cup {Mapping(m) : m \in UNION {[F -> VDescriptors] : F \in {{}, {"a"}, {"a", "b"}}}}

PayloadValues == {PyInt("5"), PyStr(<<"5">>), PyStr(<<"five">>)}
PayloadMaps == UNION {[K -> PayloadValues] : K \in SUBSET {"a", "x"}}

Payloads ==
    {NoPayload, [kind |-> "other", map |-> <<>>]}
    \cup {[kind |-> kd, map |-> m] : kd \in {"dict", "mapping"}, m \in PayloadMaps}

InitValidate ==
    /\ vexpects \in VExpectsMaps
    /\ payload0 \in Payloads
    /\ payload = payload0
    /\ raise_exceptions \in BOOLEAN
    /\ extra_policy \in {"forbid", "ignore"}
    /\ vres = "unset"
    /\ vpc = "start"
    \* the builder and the sanitizer are not running
    /\ schema = "idle" /\ schema0 = "idle" /\ stack = <<>>
    /\ replacement_made = FALSE /\ pc = "idle"
    /\ expects = "idle" /\ san1 = "idle" /\ san2 = "idle"
    /\ alias_ok = FALSE /\ spc = "idle"

\* validate_trigger_inputs(dsl, payload, raise_exceptions=...)
Validate ==
    /\ vpc = "start"
    /\ vres' = validate_trigger_inputs(vexpects, payload, raise_exceptions, extra_policy)
    /\ payload' = vres'.payload
    /\ vpc' = "done"
    /\ UNCHANGED <<vexpects, payload0, raise_exceptions, extra_policy>>
    /\ UNCHANGED <<buildVars, sanVars>>

NextValidate == Validate

SpecValidate == InitValidate /\ [][NextValidate]_vars

(***************************************************************************)
(* Claims about validate_trigger_inputs.                                   *)
(***************************************************************************)
Validated == vpc = "done"

SomeDescriptorInvalid(e) == \E f \in DOMAIN e.map : ~DescriptorValid(e.map[f])
SomeTypeUnresolvable(e) ==
    \E f \in DOMAIN e.map :
        ~parse_type(_normalize_type_string(e.map[f]["type"].v), FALSE).ok

\* C1 as stated: with a non-empty expects map and raise_exceptions disabled
\* the call always returns a result and never propagates an exception.
C1_NeverRaisesWhenRaiseDisabled ==
    (Validated /\ ~Falsy(vexpects) /\ ~raise_exceptions) => vres.outcome = "returned"

\* C1 amended: with a non-empty expects map and raise_exceptions disabled,
\* a payload that fails structural validation yields an error result and no
\* exception; an exception leaves the call exactly when a raw descriptor
\* fails descriptor validation, or the payload is a mapping or null and a
\* type string does not resolve.
C1_RaisesOnlyBeforePayloadValidation ==
    (Validated /\ ~Falsy(vexpects) /\ ~raise_exceptions) =>
        /\ vres.outcome = "raised" <=>
              \/ SomeDescriptorInvalid(vexpects)
              \/ /\ payload0.kind # "other"
                 /\ SomeTypeUnresolvable(vexpects)
        /\ vres.outcome = "raised" => vres.exc \in {"DescriptorInvalid", "TypeUnresolvable"}
        /\ vres.outcome = "returned" => vres.status \in {"success", "error"}

\* C1 witness: raise mode is off, the payload fails structural validation
\* and the call returned an error result.
C1_Witness ==
    /\ Validated
    /\ ~Falsy(vexpects)
    /\ ~raise_exceptions
    /\ vres.outcome = "returned"
    /\ vres.status = "error"
    /\ vres.built

\* C2: with expects empty or absent the call returns success for every
\* payload without building a validator; parsedInputs is the payload's
\* contents for a mapping, the empty mapping for null, unset otherwise.
C2_EmptyExpectsSkipsValidation ==
    (Validated /\ Falsy(vexpects)) =>
        /\ vres.outcome = "returned"
        /\ vres.status = "success"
        /\ ~vres.built
        /\ (IsMapping(payload0) => vres.parsed_inputs = Parsed(payload0.map))
        /\ (payload0.kind = "none" => vres.parsed_inputs = Parsed(<<>>))
        /\ (payload0.kind = "other" => ~vres.parsed_inputs.set)

\* C2 witness: no schema, a payload that is not a mapping, success with
\* parsedInputs unset.
C2_Witness ==
    /\ Validated
    /\ Falsy(vexpects)
    /\ payload0.kind = "other"
    /\ vres.status = "success"
    /\ ~vres.parsed_inputs.set

\* C9: the payload is modified only on structural success: with a non-empty
\* expects map, a dict payload and a successful validation its contents
\* equal parsedInputs; in every other outcome it is left unchanged.
C9_PayloadReplacedOnlyOnSuccess ==
    Validated =>
        IF /\ ~Falsy(vexpects)
           /\ payload0.kind = "dict"
           /\ vres.outcome = "returned"
           /\ vres.status = "success"
        THEN /\ payload.kind = "dict"
             /\ vres.parsed_inputs.set
             /\ payload.map = vres.parsed_inputs.map
        ELSE payload = payload0

\* C9 witness: a dict payload with an undeclared key and a string that is
\* coerced validates; afterwards the old key is gone, the coerced value and
\* a default are present.
C9_Witness ==
    /\ Validated
    /\ ~Falsy(vexpects)
    /\ payload0.kind = "dict"
    /\ DOMAIN payload0.map = {"a", "x"}
    /\ payload0.map["a"] = PyStr(<<"5">>)
    /\ vres.status = "success"
    /\ DOMAIN payload.map = {"a", "b"}
    /\ payload.map["a"] = PyInt("5")
    /\ payload.map["b"] = PyInt("7")

====
